---- MODULE Spec2Model ----
(***************************************************************************)
(* Model of the hook-state engine of react-use-state: the module-level    *)
(* slot table `states`, the cursor `stateIndex`, useState and the setter   *)
(* setValue it returns (src/src/App.js lines 217-235), driven by a         *)
(* component that makes a run of useState calls per render pass (lines     *)
(* 237-253) and by render() of index.js (lines 162-173).                   *)
(*                                                                         *)
(* Slots are numbered from 0 as in the source; the table is a sequence, so *)
(* slot i is element i+1.  JavaScript's undefined and null are the values  *)
(* Undefined and Null; numbers are 0..MaxVal.                              *)
(***************************************************************************)
EXTENDS Integers, Sequences, FiniteSets, TLC

\* ---------------------------------------------------------------- bounds
MaxVal == 1
MaxHooks == 2
MaxPasses == 3
MaxClicks == 3
MaxParentRenders == 2

\* ---------------------------------------------------------------- values
Undefined == -1
Null == -2
Nums == 0..MaxVal
Values == Nums \cup {Undefined, Null}

VARIABLES
    states,      \* let states = []          (line 217)
    stateIndex,  \* let stateIndex = 0       (line 218)
    pc,          \* where the single JavaScript thread is
    pos,         \* useState calls made so far by the pass in flight
    passLen,     \* useState calls the pass in flight makes
    pass,        \* number of invocations of the component started so far
    call,        \* the setValue call in flight, or the last one made
    setters,     \* every setValue closure created so far
    ret,         \* what the useState calls of the current/last pass returned
    mode,        \* "stable": same hook calls every pass; "varying": not
    hookCount,   \* the N of the stable component
    handlers,    \* the onClick closures Example has built so far
    trigger,     \* what started the current/last pass: mount, setter, driver
    passStart,   \* the cursor when the current/last pass began
    skipped,     \* call-sites the pass in flight skips before its first call
    nCalls,      \* history: number of setValue calls made
    cm           \* two copies of the engine, run side by side on the same
                 \* setter calls made in the two possible orders

vars == <<states, stateIndex, pc, pos, passLen, pass, call, setters, ret,
          mode, hookCount, handlers, skipped, trigger, passStart, nCalls, cm>>

\* ------------------------------------------------ the array `states`
\* states[i]: reading past the end of a JavaScript array gives undefined.
ReadSlot(slots, i) ==
    IF i < Len(slots) THEN slots[i + 1] ELSE Undefined

RECURSIVE Pad(_, _)
\* The holes an assignment past the end of the array leaves read as undefined.
Pad(slots, n) ==
    IF Len(slots) >= n THEN slots ELSE Pad(Append(slots, Undefined), n)

WriteSlotDropped(slots, i, v) ==
    slots

\* states[selfIndex] = newValue   (line 227)
WriteSlot(slots, i, v) ==
    [Pad(slots, i + 1) EXCEPT ![i + 1] = v]

\* a ??= b assigns when a is null or undefined
Nullish(v) ==
    v = Undefined \/ v = Null

\* states[selfIndex] ??= initialValue   (line 223)
NullishInit(slots, i, v) ==
    IF Nullish(ReadSlot(slots, i)) THEN WriteSlot(slots, i, v) ELSE slots

ReturnValueSkeleton(slots, selfIndex, initialValue) ==
    initialValue

\* return [states[selfIndex], setValue]: the value of the pair   (line 234)
ReturnValue(slots, selfIndex, initialValue) ==
    ReadSlot(slots, selfIndex)

NextIndexStuck(cursor) ==
    cursor

\* stateIndex++   (line 232)
NextIndex(cursor) ==
    cursor + 1

ResetIndexMissing(cursor) ==
    cursor

\* stateIndex = 0   (line 228)
ResetIndex(cursor) ==
    0

SetValueTargetUncaptured(selfIndex, cursor) ==
    cursor

\* setValue writes the selfIndex frozen in its closure, not the current
\* stateIndex   (lines 221, 227, 258)
SetValueTarget(selfIndex, cursor) ==
    selfIndex

RenderCallDeferred(active) ==
    FALSE

\* render() is a direct call, the last statement of setValue: setValue is
\* still on the stack while the component is re-invoked   (line 229)
RenderCall(active) ==
    active

\* The useState calls one invocation of the component makes (lines 237-253:
\* Example makes the same calls every time; a component with a conditional
\* hook call does not).
PassLens ==
    IF mode = "stable" THEN {hookCount} ELSE 1..MaxHooks

\* The shape of one invocation: how many leading call-sites it skips and how
\* many useState calls it makes.  The conditional component is
\*     if (cond) useState(..); useState(..); ...
\* whose first call-site is skipped when cond is false.
PassShapes ==
    IF mode = "conditional"
    THEN {[skipped |-> 0, len |-> hookCount],
          [skipped |-> 1, len |-> hookCount - 1]}
    ELSE {[skipped |-> 0, len |-> n] : n \in PassLens}

\* Example makes two useState calls, both with initial value 0
\* (lines 238-239).
ExampleHooks == 2
ExampleInitial == 0

DriverCursorReset(cursor) ==
    0

\* render() called by the driver itself re-invokes the component and does
\* not touch stateIndex: only setValue resets it   (lines 170, 228, 266-268)
DriverCursor(cursor) ==
    cursor

HandlerArgLive(count, slots, selfIndex) ==
    ReadSlot(slots, selfIndex) + 1

\* onClick={() => setCount(count + 1)}: the argument is computed from the
\* count the invocation that built the handler was given   (lines 244, 248)
HandlerArg(count, slots, selfIndex) ==
    count + 1

RECURSIVE Hooks(_, _)
\* One invocation of the component on the engine state st = [slots, cursor]:
\* useState(inits[1]), useState(inits[2]), ...   (lines 221-232 per call)
Hooks(st, inits) ==
    IF inits = <<>>
    THEN st
    ELSE Hooks([slots |-> NullishInit(st.slots, st.cursor, Head(inits)),
                cursor |-> NextIndex(st.cursor)], Tail(inits))

\* setValue(newValue) of the setter bound to selfIndex, run to its return:
\* write, reset, render()   (lines 227-229), the re-invocation calling
\* useState with the arguments inits.
SetterRun(st, selfIndex, newValue, inits) ==
    Hooks([slots |-> WriteSlot(st.slots,
                               SetValueTarget(selfIndex, st.cursor), newValue),
           cursor |-> ResetIndex(st.cursor)], inits)

\* Sequences of n values.
Tuples(n) ==
    [1..n -> Values]

NoCommute ==
    [phase |-> 0, i |-> 0, j |-> 0, x |-> Undefined, y |-> Undefined,
     a |-> [slots |-> <<>>, cursor |-> 0],
     b |-> [slots |-> <<>>, cursor |-> 0]]

NoCall ==
    [active |-> FALSE, pass |-> 0, pos |-> 0, selfIndex |-> 0,
     old |-> Undefined, val |-> Undefined]

\* --------------------------------------------------------------- Init
InitCommon ==
    /\ states = <<>>
    /\ stateIndex = 0
    /\ pc = "boot"
    /\ pos = 0
    /\ passLen = 0
    /\ pass = 0
    /\ call = NoCall
    /\ setters = {}
    /\ ret = <<>>
    /\ skipped = 0
    /\ handlers = {}
    /\ trigger = "none"
    /\ passStart = 0
    /\ nCalls = 0

Init ==
    /\ InitCommon
    /\ cm = NoCommute
    /\ mode = "stable"
    /\ hookCount \in 1..MaxHooks

InitVarying ==
    /\ InitCommon
    /\ cm = NoCommute
    /\ mode = "varying"
    /\ hookCount = MaxHooks

\* The component is Example.
InitExample ==
    /\ InitCommon
    /\ cm = NoCommute
    /\ mode = "stable"
    /\ hookCount = ExampleHooks

\* Two copies of the engine as the first pass of a component with N >= 2
\* hook calls left it (any table: the first pass stores its arguments), and
\* two setter calls on different slots to make.
InitCommute ==
    /\ InitCommon
    /\ mode = "stable"
    /\ hookCount \in 2..MaxHooks
    /\ \E t \in Tuples(hookCount) :
       \E i, j \in 0..(hookCount - 1) :
       \E x, y \in Values :
          /\ i # j
          /\ cm = [phase |-> 0, i |-> i, j |-> j, x |-> x, y |-> y,
                   a |-> Hooks([slots |-> <<>>, cursor |-> 0], t),
                   b |-> Hooks([slots |-> <<>>, cursor |-> 0], t)]

InitConditional ==
    /\ InitCommon
    /\ cm = NoCommute
    /\ mode = "conditional"
    /\ hookCount = MaxHooks

\* ------------------------------------------------------------ actions
\* index.js: render()   (line 172) - the first invocation of the component
Mount ==
    /\ pc = "boot"
    /\ pc' = "render"
    /\ pos' = 0
    /\ ret' = <<>>
    /\ pass' = pass + 1
    /\ trigger' = "mount"
    /\ passStart' = stateIndex
    /\ \E shape \in PassShapes :
          /\ skipped' = shape.skipped
          /\ passLen' = shape.len
    /\ UNCHANGED <<states, stateIndex, call, setters, mode, hookCount, handlers, nCalls, cm>>

\* useState(initialValue)   (lines 220-235)
UseState(initialValue) ==
    /\ pc = "render"
    /\ pos < passLen
    /\ LET selfIndex == stateIndex
           slots == NullishInit(states, selfIndex, initialValue)
       IN /\ states' = slots
          /\ stateIndex' = NextIndex(stateIndex)
          /\ setters' = setters \cup
                 {[pass |-> pass, pos |-> pos, site |-> pos + skipped,
                   selfIndex |-> selfIndex]}
          /\ ret' = Append(ret, [slot |-> selfIndex,
                                 value |-> ReturnValue(slots, selfIndex,
                                                       initialValue)])
    /\ pos' = pos + 1
    /\ UNCHANGED <<pc, passLen, pass, call, mode, hookCount, handlers, skipped, trigger, passStart, nCalls, cm>>

\* The component returns; render() returns; a setValue that called it returns.
RenderReturn ==
    /\ pc = "render"
    /\ pos = passLen
    /\ pc' = "idle"
    /\ call' = [call EXCEPT !.active = FALSE]
    /\ UNCHANGED <<states, stateIndex, pos, passLen, pass, setters, ret,
                   mode, hookCount, handlers, skipped, trigger, passStart, nCalls, cm>>

\* An event handler calls a setter it holds, from this pass or an earlier
\* one: setValue(newValue) is entered   (lines 225-226)
SetValueEnter(s, newValue) ==
    /\ pc = "idle"
    /\ pass < MaxPasses
    /\ s \in setters
    /\ pc' = "sv_write"
    /\ call' = [active |-> TRUE, pass |-> s.pass, pos |-> s.pos,
                selfIndex |-> s.selfIndex,
                old |-> ReadSlot(states, s.selfIndex), val |-> newValue]
    /\ nCalls' = nCalls + 1
    /\ UNCHANGED <<states, stateIndex, pos, passLen, pass, setters, ret,
                   mode, hookCount, handlers, skipped, trigger, passStart, cm>>

\* states[selfIndex] = newValue   (line 227)
SetValueWrite ==
    /\ pc = "sv_write"
    /\ LET target == SetValueTarget(call.selfIndex, stateIndex)
       IN states' = WriteSlot(states, target, call.val)
    /\ pc' = "sv_reset"
    /\ UNCHANGED <<stateIndex, pos, passLen, pass, call, setters, ret,
                   mode, hookCount, handlers, skipped, trigger, passStart, nCalls, cm>>

\* stateIndex = 0   (line 228)
SetValueReset ==
    /\ pc = "sv_reset"
    /\ stateIndex' = ResetIndex(stateIndex)
    /\ pc' = "sv_render"
    /\ UNCHANGED <<states, pos, passLen, pass, call, setters, ret,
                   mode, hookCount, handlers, skipped, trigger, passStart, nCalls, cm>>

\* render()   (line 229): the component is invoked again
SetValueRender ==
    /\ pc = "sv_render"
    /\ pc' = "render"
    /\ pos' = 0
    /\ ret' = <<>>
    /\ pass' = pass + 1
    /\ trigger' = "setter"
    /\ passStart' = stateIndex
    /\ \E shape \in PassShapes :
          /\ skipped' = shape.skipped
          /\ passLen' = shape.len
    /\ call' = [call EXCEPT !.active = RenderCall(call.active)]
    /\ UNCHANGED <<states, stateIndex, setters, mode, hookCount, handlers, nCalls, cm>>

\* Example returns its markup (lines 241-252): each button gets a new onClick
\* closure over the count and the setter this invocation was given.
ExampleReturn ==
    /\ pc = "render"
    /\ pos = passLen
    /\ pc' = "idle"
    /\ call' = [call EXCEPT !.active = FALSE]
    /\ handlers' = handlers \cup
           {[pass |-> pass, pos |-> k - 1, selfIndex |-> ret[k].slot,
             count |-> ret[k].value] : k \in 1..Len(ret)}
    /\ UNCHANGED <<states, stateIndex, pos, passLen, pass, setters, ret,
                   mode, hookCount, skipped, trigger, passStart, nCalls, cm>>

\* A click runs a handler, of the markup on screen or an earlier one: it calls
\* its setter with its count + 1   (lines 244, 248, then 225-226).
ClickHandler(h) ==
    /\ pc = "idle"
    /\ nCalls < MaxClicks
    /\ h \in handlers
    /\ pc' = "sv_write"
    /\ call' = [active |-> TRUE, pass |-> h.pass, pos |-> h.pos,
                selfIndex |-> h.selfIndex,
                old |-> ReadSlot(states, h.selfIndex),
                val |-> HandlerArg(h.count, states, h.selfIndex)]
    /\ nCalls' = nCalls + 1
    /\ UNCHANGED <<states, stateIndex, pos, passLen, pass, setters, ret,
                   mode, hookCount, handlers, skipped, trigger, passStart, cm>>

\* The driver re-invokes the component without any setter call, as when a
\* parent component is rendered again   (lines 266-268).
ParentRender ==
    /\ pc = "idle"
    /\ pass - nCalls - 1 < MaxParentRenders
    /\ pc' = "render"
    /\ pos' = 0
    /\ ret' = <<>>
    /\ pass' = pass + 1
    /\ trigger' = "driver"
    /\ stateIndex' = DriverCursor(stateIndex)
    /\ passStart' = stateIndex'
    /\ \E shape \in PassShapes :
          /\ skipped' = shape.skipped
          /\ passLen' = shape.len
    /\ UNCHANGED <<states, call, setters, mode, hookCount, handlers, nCalls, cm>>

\* The first of the two calls: copy a runs setter i, copy b runs setter j;
\* the re-invocation is given the same useState arguments in both.
CommuteFirst ==
    /\ cm.phase = 0
    /\ \E inits \in Tuples(hookCount) :
          cm' = [cm EXCEPT !.phase = 1,
                           !.a = SetterRun(cm.a, cm.i, cm.x, inits),
                           !.b = SetterRun(cm.b, cm.j, cm.y, inits)]
    /\ UNCHANGED <<states, stateIndex, pc, pos, passLen, pass, call, setters,
                   ret, mode, hookCount, handlers, trigger, passStart,
                   skipped, nCalls>>

\* The second call: copy a runs setter j, copy b runs setter i.
CommuteSecond ==
    /\ cm.phase = 1
    /\ \E inits \in Tuples(hookCount) :
          cm' = [cm EXCEPT !.phase = 2,
                           !.a = SetterRun(cm.a, cm.j, cm.y, inits),
                           !.b = SetterRun(cm.b, cm.i, cm.x, inits)]
    /\ UNCHANGED <<states, stateIndex, pc, pos, passLen, pass, call, setters,
                   ret, mode, hookCount, handlers, trigger, passStart,
                   skipped, nCalls>>

Next ==
    \/ Mount
    \/ \E v \in Values : UseState(v)
    \/ RenderReturn
    \/ \E s \in setters : \E v \in Values : SetValueEnter(s, v)
    \/ SetValueWrite
    \/ SetValueReset
    \/ SetValueRender

\* The component makes the same hook calls in every pass.
Spec == Init /\ [][Next]_vars

\* The number of hook calls may differ from pass to pass.
SpecVarying == InitVarying /\ [][Next]_vars

NextExample ==
    \/ Mount
    \/ UseState(ExampleInitial)
    \/ ExampleReturn
    \/ \E h \in handlers : ClickHandler(h)
    \/ SetValueWrite
    \/ SetValueReset
    \/ SetValueRender

\* The component is Example and the events are clicks on its two buttons.
SpecExample == InitExample /\ [][NextExample]_vars

NextDriver ==
    \/ NextExample
    \/ ParentRender

\* Example, re-invoked by clicks and also by the driver on its own.
SpecDriver == InitExample /\ [][NextDriver]_vars

NextCommute ==
    \/ CommuteFirst
    \/ CommuteSecond

\* Two setter calls on different slots, made in both orders.
SpecCommute == InitCommute /\ [][NextCommute]_vars

\* The first call-site is conditional: a pass may skip it.
SpecConditional == InitConditional /\ [][Next]_vars

\* ------------------------------------------------------------- claims

\* C1 (as stated): after the setter bound to position i is called with x,
\* the useState call at position i of the pass it triggers returns x, for
\* every x (null and undefined included) and every initialValue argument.
C1_SetterVisibility ==
    (pc \in {"render", "idle"} /\ nCalls >= 1 /\ Len(ret) > call.pos)
        => ret[call.pos + 1].value = call.val

\* C2 (as stated): a useState call that reaches a slot already allocated
\* returns the value stored in that slot (by its first allocation or by the
\* latest setter write) and never its own initialValue argument.
C2_OneTimeInit ==
    [][(pc = "render" /\ pos' = pos + 1 /\ stateIndex < Len(states)) =>
          ret'[pos'].value = ReadSlot(states, stateIndex)]_vars

\* C3: with the same hook calls in every pass, the i-th useState call of
\* every pass reads slot i and its setter writes slot i.
C3_SlotStability ==
    /\ \A k \in 1..Len(ret) : ret[k].slot = k - 1
    /\ \A s \in setters : s.selfIndex = s.pos
    /\ pc = "sv_reset" => ReadSlot(states, call.pos) = call.val

C3_Witness ==
    /\ pc = "idle"
    /\ pass >= 2
    /\ Len(ret) >= 2
    /\ ret[2].slot = 1
    /\ call.pos = 1

\* C4 (as stated): a setter call and its re-render leave every slot other
\* than the setter's own with the value it had before the call: no step
\* taken while the call is in flight changes such a slot.
C4_IndependentSlots ==
    [][call.active =>
          \A j \in 0..(Len(states) - 1) :
              j # call.selfIndex => ReadSlot(states', j) = ReadSlot(states, j)]_vars

C6_StaleSetter ==
    [][pc = "sv_write" =>
          /\ ReadSlot(states', call.pos) = call.val
          /\ Len(states') = Len(states)
          /\ \A j \in 0..(Len(states) - 1) :
                j # call.pos => ReadSlot(states', j) = ReadSlot(states, j)]_vars

C6_Witness ==
    /\ pc = "sv_reset"
    /\ call.pass < pass
    /\ stateIndex # call.pos
    /\ ReadSlot(states, call.pos) = call.val
    /\ call.old # call.val

\* C7: a setter call writes its slot, then resets the cursor, then calls
\* render(), with nothing in between; when the re-invocation makes its
\* first hook call the slot holds newValue and the cursor is 0.
C7_StepOrder ==
    [][/\ pc = "sv_write" =>
            /\ pc' = "sv_reset"
            /\ ReadSlot(states', call.selfIndex) = call.val
            /\ stateIndex' = stateIndex
            /\ pass' = pass
       /\ pc = "sv_reset" =>
            /\ pc' = "sv_render"
            /\ stateIndex' = 0
            /\ states' = states
            /\ pass' = pass
       /\ pc = "sv_render" =>
            /\ pc' = "render"
            /\ pass' = pass + 1
            /\ pos' = 0
            /\ states' = states
            /\ stateIndex' = stateIndex
       /\ (pc = "render" /\ pos = 0 /\ pos' = 1 /\ call.active) =>
            /\ stateIndex = 0
            /\ ReadSlot(states, call.selfIndex) = call.val]_vars

C7_Witness ==
    /\ pc = "render"
    /\ pos = 0
    /\ call.active
    /\ stateIndex = 0
    /\ ReadSlot(states, call.selfIndex) = call.val
    /\ call.old # call.val

\* C8 (as stated): N setter calls produce exactly N re-invocations; the
\* k-th starts with the cursor at 0 and its hook calls return the slot
\* values that setter calls 1..k left.
C8_NoBatching ==
    [][/\ pc' = "idle" => pass' = nCalls' + 1
       /\ (pass' # pass /\ pc # "boot") =>
            /\ pass' = nCalls' + 1
            /\ stateIndex' = 0
       /\ (call.active /\ pos' = pos + 1) =>
            ret'[pos'].value = ReadSlot(states, ret'[pos'].slot)]_vars

C10_UnconditionalReplace ==
    (pc = "idle" /\ nCalls >= 1 /\ call.old = call.val)
        => /\ ReadSlot(states, call.selfIndex) = call.val
           /\ pass = nCalls + 1

\* C11 (as stated): the slot table never shrinks, and a slot, once
\* allocated, is never initialised again: a useState call that reaches an
\* allocated slot leaves that slot's value as it was.
C11_SlotLifecycle ==
    [][/\ Len(states') >= Len(states)
       /\ (pc = "render" /\ pos' = pos + 1 /\ stateIndex < Len(states)) =>
            ReadSlot(states', stateIndex) = ReadSlot(states, stateIndex)]_vars

\* C12: when a pass skips a conditional hook call the engine has no error
\* state to reach and raises nothing: the call at position i of the pass is
\* given slot i all the same, so a call-site reads the slot that another
\* call-site filled in an earlier pass.
C12_NoOrderCheck ==
    /\ pc \in {"boot", "render", "idle", "sv_write", "sv_reset", "sv_render"}
    /\ \A k \in 1..Len(ret) : ret[k].slot = k - 1
    /\ (pc = "render" /\ pos < passLen) => stateIndex = pos

C12_Witness ==
    /\ pass = 2
    /\ skipped = 1
    /\ call.selfIndex = 1
    /\ Len(ret) >= 1
    /\ ret[1].slot = 0
    /\ ~Nullish(ret[1].value)
    /\ [pass |-> 1, pos |-> 0, site |-> 0, selfIndex |-> 0] \in setters


\* C13: a useState call takes the cursor's value as its selfIndex, advances
\* the cursor by exactly one and returns the value held by slot selfIndex
\* with a setter bound to selfIndex; calls of one pass get consecutive
\* indices and after a pass of N calls the cursor is N.
C13_CallProtocol ==
    [][/\ (pc = "render" /\ pos' = pos + 1) =>
            /\ ret'[pos'].slot = stateIndex
            /\ ret'[pos'].value = ReadSlot(states', stateIndex)
            /\ stateIndex' = stateIndex + 1
            /\ \E s \in setters' :
                  s.pass = pass /\ s.pos = pos /\ s.selfIndex = stateIndex
            /\ \A k \in 2..Len(ret') : ret'[k].slot = ret'[k - 1].slot + 1
       /\ pc' = "idle" => stateIndex' = passLen']_vars

C13_Witness ==
    /\ pc = "idle"
    /\ pass >= 2
    /\ passLen = 2
    /\ stateIndex = 2
    /\ ret[2].slot = 1
    /\ ~Nullish(call.val)
    /\ call.val # call.old
    /\ ret[call.pos + 1].value = call.val

\* C14 (as stated): a useState call that lands on an already-allocated slot
\* leaves the whole slot table unchanged and moves only the cursor, so no
\* step of a render pass changes a slot allocated before it.
C14_WritesOnlyByInitAndSetter ==
    [][pc = "render" =>
          /\ \A j \in 0..(Len(states) - 1) : states'[j + 1] = states[j + 1]
          /\ (pos' = pos + 1 /\ stateIndex < Len(states)) =>
                (states' = states /\ stateIndex' # stateIndex)]_vars

\* C15: the count an invocation was given stays what it was whatever setters
\* are called later, and a write shows up only in what a later invocation's
\* useState returns; so a handler built in pass k writes the count of pass k
\* plus one every time it runs.
C15_Snapshots ==
    [][/\ handlers \subseteq handlers'
       /\ pc \in {"sv_write", "sv_reset"} => ret' = ret
       /\ pc = "sv_write" =>
            \A h \in handlers :
                (h.pass = call.pass /\ h.pos = call.pos) =>
                    ReadSlot(states', h.selfIndex) = h.count + 1]_vars

C15_Witness ==
    /\ pc = "sv_reset"
    /\ nCalls >= 2
    /\ call.pass = 1
    /\ call.old = call.val
    /\ ReadSlot(states, call.selfIndex) = 1
    /\ [pass |-> 1, pos |-> call.pos, selfIndex |-> call.selfIndex,
        count |-> 0] \in handlers

\* C16 (as stated): a re-invocation the driver starts without a setter
\* begins with the cursor at N, its i-th hook call is given slot N+i, and
\* that slot is freshly allocated with the call's initialValue.
C16_DriverRerender ==
    [][/\ (pass' # pass /\ trigger' = "driver") => stateIndex' = hookCount
       /\ (trigger = "driver" /\ pc = "render" /\ pos' = pos + 1) =>
            /\ ret'[pos'].slot = hookCount + pos
            /\ stateIndex >= Len(states)
            /\ ret'[pos'].value = ExampleInitial]_vars

\* C16 (amended): such a re-invocation begins with the cursor where the pass
\* before it left it, which is N when that pass began at 0 and never less
\* than N; its i-th hook call is given slot start+i, not slot i; the slot is
\* allocated with the call's initialValue when the table did not reach it
\* and is otherwise the existing slot, returned as stored unless nullish.
C16_DriverRerenderAmended ==
    [][/\ (pass' # pass /\ trigger' = "driver") =>
            /\ stateIndex' = stateIndex
            /\ passStart' = stateIndex
            /\ stateIndex >= hookCount
            /\ passStart = 0 => stateIndex = hookCount
       /\ (trigger = "driver" /\ pc = "render" /\ pos' = pos + 1) =>
            /\ ret'[pos'].slot = passStart + pos
            /\ ret'[pos'].slot >= hookCount + pos
            /\ stateIndex >= Len(states) =>
                  /\ ret'[pos'].value = ExampleInitial
                  /\ Len(states') = Len(states) + 1
            /\ (stateIndex < Len(states)
                  /\ ~Nullish(ReadSlot(states, stateIndex))) =>
                  /\ ret'[pos'].value = ReadSlot(states, stateIndex)
                  /\ states' = states]_vars

C16_Witness ==
    /\ trigger = "driver"
    /\ pc = "idle"
    /\ passStart = ExampleHooks
    /\ Len(states) = 2 * ExampleHooks
    /\ ret[1].slot = ExampleHooks
    /\ ret[1].value = 1
    /\ ReadSlot(states, 0) = ExampleInitial

C18_Commute ==
    cm.phase = 2 => cm.a = cm.b

====
